---- MODULE Spec2Model ----
(***************************************************************************)
(* The asynchronous pipeline of eventflow: event processing, webhook       *)
(* fan-out and delivery (tasks/event_processing.py) and notification       *)
(* dispatch (tasks/notifications.py), run by Celery workers against one    *)
(* shared store.                                                           *)
(*                                                                         *)
(* Spec         the event processor: ingestion, process_event and         *)
(*              trigger_webhooks, with store and broker faults, retries    *)
(*              and duplicate deliveries.                                  *)
(* SpecDelivery the webhook dispatcher, from the moment process_event has  *)
(*              handed an event over: trigger_webhooks and                 *)
(*              send_single_webhook on concurrent workers.                 *)
(* SpecNotif    the notification dispatcher: create_and_send_notification, *)
(*              send_email_notification and send_webhook_notification.     *)
(* SpecRetry    one process_event task over a long run, with enough faults *)
(*              to exhaust its retries, and cleanup_old_events.            *)
(* SpecPost     one send_single_webhook task over a long run, with enough  *)
(*              failing POSTs to exhaust its retries.                      *)
(* SpecBulk     send_bulk_notifications and the tasks it submits.          *)
(* SpecMaint    the periodic tasks of tasks/aggregations.py:               *)
(*              cleanup_old_events and generate_daily_report.              *)
(* SpecInbox    the notification mutations of the GraphQL API next to the  *)
(*              e-mail dispatcher.                                         *)
(* SpecBackoff  the retry schedule: every task failing until its retries   *)
(*              are exhausted.                                             *)
(* SpecAggregate generate_event_aggregations over short time_range values. *)
(* SpecPipeline the whole pipeline of one event, from ingestion to the     *)
(*              POST of send_single_webhook.                               *)
(* SpecFair     Spec under fair scheduling of the request's commit and of  *)
(*              the workers.                                               *)
(* SpecReport   generate_daily_report run repeatedly.                      *)
(* SpecCleanup  cleanup_old_events one transaction at a time, next to      *)
(*              requests ingesting events.                                 *)
(* SpecSent     every operation that marks a notification sent.            *)
(* SpecSign     the signer: generate_signature and verify_signature.       *)
(***************************************************************************)
EXTENDS Integers, Sequences, FiniteSets, Bags, TLC

(***************************************************************************)
(* Bounds of the exploration.                                              *)
(***************************************************************************)
\* store and broker faults (a commit or a submit that raises) per behaviour
\* of the event processor
MaxFaults == 2
\* messages the broker delivers a second time (at-least-once delivery)
MaxRedeliver == 1
\* store faults per behaviour of the webhook dispatcher
MaxCommitFaults == 1
\* deliveries whose POST fails per behaviour of the webhook dispatcher
MaxHttpFailures == 3
\* store and broker faults over the long run of one process_event task
MaxProcessFaults == 4
\* POSTs that fail over the long run of one send_single_webhook task
MaxPostFailures == 6
\* length of the user_ids list passed to send_bulk_notifications
MaxUserIds == 2
\* rows cleanup_old_events deletes per transaction: stands for the 10000
\* of the source, scaled to the number of events of the exploration
batch_size == 2
\* maintenance tasks run per behaviour
MaxRuns == 2
\* days that pass per behaviour
MaxDays == 1
\* length of the time_range strings generate_event_aggregations is given
MaxRangeLen == 3
\* the values of days_to_keep cleanup_old_events is run with
RetentionDays == {1, 2}

Users == {"u1", "u2"}
\* the users who send events
Clients == {"u1"}
EventIds == {"e1"}
WebhookIds == {"w1", "w2"}
NotificationIds == {"n1"}
\* Notification.notification_type
Channels == {"email", "in_app", "webhook"}
Workers == {1, 2}
\* the valid_types of TrackEvent that clients send; the filters below also
\* name a type no event here has
EventTypes == {"click"}

(***************************************************************************)
(* Program constants.                                                      *)
(***************************************************************************)
ProcessEventMaxRetries == 3
TriggerWebhooksMaxRetries == 3
SendSingleWebhookMaxRetries == 5
SendEmailMaxRetries == 3
SendWebhookNotificationMaxRetries == 5
\* send_webhook_notification: the retry_count at which it gives up
RetryCountLimit == 5

\* A DateTime column that is NULL; a set one holds the stamp <<task, id, retries>>
\* of the execution whose datetime.utcnow() wrote it.
NoTime == <<>>
\* no row with that id
NoRow == [exists |-> FALSE]

\* datetime.isoformat() of the stamp of execution number r of a task
TimeStr == <<"t0", "t1", "t2", "t3", "t4", "t5">>

EmptyMap == [x \in {} |-> "v"]
\* the property maps a client sends: none, or one with a key of its own and
\* a key the enrichment writes
PropertyMaps ==
    { EmptyMap,
      [x \in {"k", "_version"} |-> IF x = "k" THEN "v" ELSE "0.9"] }

\* the event filters a subscription is created with
FilterSets == { {}, {"*"}, {"click"}, {"page_view"} }

\* outcomes of requests.post: a response with a status code, or a raised
\* Timeout or RequestException (status_code is then unused)
HttpResponses ==
    [kind : {"response"}, status_code : {200, 399, 400}]
        \cup [kind : {"timeout", "neterror"}, status_code : {0}]

NULL == "NULL"

\* no maintenance task has returned yet
NoReturn == <<>>

\* the day the behaviours start in, counted from the oldest day a stored
\* event may carry
StartDay == 3

\* send_bulk_notifications has not been called
NoCall == [called |-> FALSE]

VARIABLES
    events,      \* table events: EventIds -> row or NoRow
    webhooks,    \* table webhooks: WebhookIds -> row
    queue,       \* the broker's queue "events": a bag of task messages
    worker,      \* per worker, the task execution it is in the middle of
    faults,      \* store and broker faults the behaviour may still see
    redeliveries,\* duplicate deliveries the behaviour may still see
    httpFailures,\* failed POSTs the behaviour may still see
    attempts,    \* per webhook, deliveries that did the POST and committed
    enqueued,    \* per <<webhook, event>>, send_single_webhook tasks submitted
    notifications, \* table notifications: NotificationIds -> row or NoRow
    executions,  \* per notification, the outcomes of the sends so far
    bulk,        \* the call of send_bulk_notifications and what it returned
    users,       \* table users: Users -> row
    clock,       \* the day datetime.utcnow() falls in
    returned     \* what the maintenance tasks returned, oldest first

\* the notification dispatcher's own state
\* the state of the scheduled maintenance (tasks/aggregations.py)
mvars == <<users, clock, returned>>

nvars == <<notifications, executions, bulk, mvars>>

vars == <<events, webhooks, queue, worker, faults, redeliveries, httpFailures,
          attempts, enqueued, notifications, executions, bulk,
          users, clock, returned>>

(***************************************************************************)
(* Helpers.                                                                *)
(***************************************************************************)
\* a task message: its arguments, request.retries and the countdown it
\* was submitted with (0 for a .delay)
Msg(task, e, w, r) ==
    [task |-> task, event |-> e, webhook |-> w, retries |-> r, countdown |-> 0]

\* the value of datetime.utcnow() in the execution of message m
Stamp(m) == <<m.task, m.event, m.webhook, m.retries>>

Idle == [task |-> "idle"]

\* workers are interchangeable: the task goes to the first idle one
Free(k) == worker[k] = Idle /\ \A j \in Workers : j < k => worker[j] # Idle

\* mutant: a row flushed by a request still open is seen
Visible_Flushed(e) == events[e].exists

\* a row a task's own session can see: inserted and committed
Visible(e) == events[e].exists /\ events[e].committed

\* the factor of the countdown expression in each task's self.retry call
BackoffBase(task) ==
    CASE task = "process_event" -> 1
      [] task = "trigger_webhooks" -> 1
      [] task = "send_single_webhook" -> 5
      [] task = "send_email_notification" -> 60
      [] task = "send_webhook_notification" -> 30

\* mutant: the delay grows linearly
Countdown_Linear(task, retries) == BackoffBase(task) * (retries + 1)

\* countdown = base * (2 ** self.request.retries)
Countdown(task, retries) == BackoffBase(task) * 2^retries

\* what the retry of m looks like in the queue
Retried(m) ==
    [m EXCEPT !.retries = @ + 1, !.countdown = Countdown(m.task, m.retries)]

\* self.retry(exc=e, countdown=...): resubmits the task with retries + 1, or
\* re-raises exc (the task is dropped) once retries has reached max_retries
Retry(m, max_retries) ==
    IF m.retries < max_retries
    THEN SetToBag({Retried(m)})
    ELSE EmptyBag

Take(m) == queue (-) SetToBag({m})

\* process_event, lines 27-35: the enrichment of a non-empty property map
Enrich(properties, m) ==
    IF DOMAIN properties = {}
    THEN properties
    ELSE [x \in DOMAIN properties \cup {"_processed_at", "_version"} |->
            IF x = "_processed_at" THEN TimeStr[m.retries + 1]
            ELSE IF x = "_version" THEN "1.0"
            ELSE properties[x]]

\* mutant: the filter is not consulted
should_trigger_AnyType(webhook, event_type) == webhook.is_active

\* Webhook.should_trigger
should_trigger(webhook, event_type) ==
    IF ~webhook.is_active THEN FALSE
    ELSE IF "*" \in webhook.events THEN TRUE
    ELSE event_type \in webhook.events

\* mutant: status 400 counted as a success
send_webhook_Inclusive(response) ==
    response.kind = "response" /\ response.status_code <= 400

\* WebhookService.send_webhook: result['success']
send_webhook(response) ==
    response.kind = "response" /\ response.status_code < 400

(***************************************************************************)
(* Ingestion: TrackEvent.mutate and track_event.                           *)
(***************************************************************************)
\* the row is flushed and process_event submitted inside the request's
\* transaction; a failed submit is swallowed
TrackEvent(e, u, type, properties) ==
    /\ ~events[e].exists
    /\ events' = [events EXCEPT ![e] =
                    [exists |-> TRUE, committed |-> FALSE, user_id |-> u,
                     event_type |-> type, properties |-> properties,
                     is_processed |-> "pending", processed_at |-> NoTime]]
    /\ \/ /\ queue' = queue (+) SetToBag({Msg("process_event", e, "-", 0)})
          /\ UNCHANGED faults
       \/ /\ faults > 0
          /\ faults' = faults - 1
          /\ UNCHANGED queue
    /\ UNCHANGED <<webhooks, worker, redeliveries, httpFailures, attempts, enqueued, nvars>>

\* pyramid_tm commits the request's transaction when the request ends
CommitRequest(e) ==
    /\ events[e].exists
    /\ ~events[e].committed
    /\ events' = [events EXCEPT ![e].committed = TRUE]
    /\ UNCHANGED <<webhooks, queue, worker, faults, redeliveries, httpFailures, attempts, enqueued, nvars>>

\* UpdateWebhook.mutate by user u with is_active given
UpdateWebhook(u, w, is_active) ==
    /\ webhooks[w].user_id = u
    /\ webhooks[w].is_active # is_active
    /\ webhooks' = [webhooks EXCEPT ![w].is_active = is_active]
    /\ UNCHANGED <<events, queue, worker, faults, redeliveries, httpFailures, attempts, enqueued, nvars>>

\* task_acks_late: a message not acknowledged is delivered again
Redeliver(m) ==
    /\ BagIn(m, queue)
    /\ redeliveries > 0
    /\ redeliveries' = redeliveries - 1
    /\ queue' = queue (+) SetToBag({m})
    /\ UNCHANGED <<events, webhooks, worker, faults, httpFailures, attempts, enqueued, nvars>>

(***************************************************************************)
(* process_event                                                           *)
(***************************************************************************)
\* lines 48-62: rollback, best-effort mark failed (a second store error is
\* swallowed), then self.retry. ev is the table as committed so far.
ProcessEventFailed(m, ev, q, markOk) ==
    /\ faults >= (IF markOk THEN 1 ELSE 2)
    /\ faults' = faults - (IF markOk THEN 1 ELSE 2)
    /\ events' = IF markOk
                 THEN [ev EXCEPT ![m.event].is_processed = "failed"]
                 ELSE ev
    /\ queue' = q (+) Retry(m, ProcessEventMaxRetries)

\* lines 17-25: load the event, mark it processing, commit
ProcessEventStart(k, m) ==
    /\ Free(k)
    /\ BagIn(m, queue)
    /\ m.task = "process_event"
    /\ \/ /\ ~Visible(m.event)
          /\ queue' = Take(m)
          /\ UNCHANGED <<events, worker, faults>>
       \/ /\ Visible(m.event)
          /\ events' = [events EXCEPT ![m.event].is_processed = "processing"]
          /\ queue' = Take(m)
          /\ worker' = [worker EXCEPT ![k] = [task |-> "process_event", msg |-> m]]
          /\ UNCHANGED faults
       \/ /\ Visible(m.event)
          /\ \E markOk \in BOOLEAN : ProcessEventFailed(m, events, Take(m), markOk)
          /\ UNCHANGED worker
    /\ UNCHANGED <<webhooks, redeliveries, httpFailures, attempts, enqueued, nvars>>

\* lines 27-46: enrich, submit trigger_webhooks, mark processed, commit
ProcessEventFinish(k) ==
    /\ worker[k].task = "process_event"
    /\ LET m == worker[k].msg
           e == m.event
           trigger == SetToBag({Msg("trigger_webhooks", e, "-", 0)})
       IN  \/ /\ events[e].exists
              /\ events' = [events EXCEPT
                    ![e].properties = Enrich(@, m),
                    ![e].is_processed = "processed",
                    ![e].processed_at = Stamp(m)]
              /\ queue' = queue (+) trigger
              /\ UNCHANGED faults
           \/ /\ events[e].exists
              /\ \E markOk \in BOOLEAN : ProcessEventFailed(m, events, queue, markOk)
           \/ /\ events[e].exists
              /\ \E markOk \in BOOLEAN :
                    ProcessEventFailed(m, events, queue (+) trigger, markOk)
           \* the row was deleted after the commit of line 25: the refresh
           \* of line 28 or the UPDATE of line 43 finds no row and raises;
           \* the except branch finds no event to mark and retries
           \/ /\ ~events[e].exists
              /\ \E q \in {queue, queue (+) trigger} :
                    queue' = q (+) Retry(m, ProcessEventMaxRetries)
              /\ UNCHANGED <<events, faults>>
    /\ worker' = [worker EXCEPT ![k] = Idle]
    /\ UNCHANGED <<webhooks, redeliveries, httpFailures, attempts, enqueued, nvars>>

(***************************************************************************)
(* trigger_webhooks                                                        *)
(***************************************************************************)
\* mutant: the subscriptions are not restricted to the event's owner
Targets_AnyOwner(e) ==
    { w \in WebhookIds :
        /\ webhooks[w].is_active = TRUE
        /\ should_trigger(webhooks[w], events[e].event_type) }

\* lines 79-88: the owner's active webhooks that should_trigger
Targets(e) ==
    { w \in WebhookIds :
        /\ webhooks[w].user_id = events[e].user_id
        /\ webhooks[w].is_active = TRUE
        /\ should_trigger(webhooks[w], events[e].event_type) }

Deliveries(S, e) == SetToBag({ Msg("send_single_webhook", e, w, 0) : w \in S })

Count(S) == [p \in WebhookIds \X EventIds |->
                enqueued[p] + (IF p[1] \in S.ws /\ p[2] = S.e THEN 1 ELSE 0)]

TriggerWebhooks(m) ==
    /\ BagIn(m, queue)
    /\ m.task = "trigger_webhooks"
    /\ \/ /\ ~Visible(m.event)
          /\ queue' = Take(m)
          /\ UNCHANGED <<faults, enqueued>>
       \/ /\ Visible(m.event)
          /\ queue' = Take(m) (+) Deliveries(Targets(m.event), m.event)
          /\ enqueued' = Count([ws |-> Targets(m.event), e |-> m.event])
          /\ UNCHANGED faults
       \/ /\ Visible(m.event)
          /\ faults > 0
          /\ faults' = faults - 1
          /\ \E S \in SUBSET Targets(m.event) :
                /\ S # Targets(m.event) \/ S = {}
                /\ queue' = (Take(m) (+) Deliveries(S, m.event))
                               (+) Retry(m, TriggerWebhooksMaxRetries)
                /\ enqueued' = Count([ws |-> S, e |-> m.event])
    /\ UNCHANGED <<events, webhooks, worker, redeliveries, httpFailures, attempts, nvars>>

(***************************************************************************)
(* send_single_webhook                                                     *)
(***************************************************************************)
Delivering(k, w) == worker[k].task = "send_single_webhook" /\ worker[k].msg.webhook = w

\* lines 113-124: load the webhook row and the event, build the payload
SendSingleWebhookLoad(k, m) ==
    /\ Free(k)
    /\ BagIn(m, queue)
    /\ m.task = "send_single_webhook"
    /\ queue' = Take(m)
    /\ worker' =
         IF ~Visible(m.event)
         THEN worker
         ELSE [j \in Workers |->
                 IF j = k
                 THEN [task |-> "send_single_webhook", msg |-> m,
                       success_count |-> webhooks[m.webhook].success_count,
                       failure_count |-> webhooks[m.webhook].failure_count,
                       alone |-> \A i \in Workers : ~Delivering(i, m.webhook)]
                 ELSE IF Delivering(j, m.webhook)
                 THEN [worker[j] EXCEPT !.alone = FALSE]
                 ELSE worker[j]]
    /\ UNCHANGED <<events, webhooks, faults, redeliveries, httpFailures, attempts, enqueued, nvars>>

\* mutant: a subscription is disabled at its fifth failure
UpdateStatistics_Disable(row, loaded, success, now) ==
    IF success
    THEN [row EXCEPT !.success_count = loaded.success_count + 1,
                     !.last_triggered_at = now]
    ELSE [row EXCEPT !.failure_count = loaded.failure_count + 1,
                     !.last_triggered_at = now,
                     !.is_active = (loaded.failure_count + 1 < 5)]

\* lines 129-133, 135: the counter of the outcome becomes the value loaded
\* plus one; only the columns assigned are written by the commit
UpdateStatistics(row, loaded, success, now) ==
    IF success
    THEN [row EXCEPT !.success_count = loaded.success_count + 1,
                     !.last_triggered_at = now]
    ELSE [row EXCEPT !.failure_count = loaded.failure_count + 1,
                     !.last_triggered_at = now]

\* lines 126-145: POST, update the statistics, commit, retry on failure
SendSingleWebhookFinish(k, response) ==
    /\ worker[k].task = "send_single_webhook"
    /\ LET m == worker[k].msg
           w == m.webhook
           success == send_webhook(response)
       IN  \/ /\ webhooks' = [webhooks EXCEPT
                    ![w] = UpdateStatistics(@, worker[k], success, Stamp(m))]
              /\ attempts' = [attempts EXCEPT ![w] = @ + 1]
              /\ queue' = queue (+) (IF success THEN EmptyBag
                                     ELSE Retry(m, SendSingleWebhookMaxRetries))
              /\ UNCHANGED faults
           \/ /\ faults > 0
              /\ faults' = faults - 1
              /\ queue' = queue (+) Retry(m, SendSingleWebhookMaxRetries)
              /\ UNCHANGED <<webhooks, attempts>>
    /\ httpFailures >= (IF send_webhook(response) THEN 0 ELSE 1)
    /\ httpFailures' = httpFailures - (IF send_webhook(response) THEN 0 ELSE 1)
    /\ worker' = [worker EXCEPT ![k] = Idle]
    /\ UNCHANGED <<events, redeliveries, enqueued, nvars>>

(***************************************************************************)
(* The event processor.                                                    *)
(***************************************************************************)
Messages == DOMAIN queue

\* the subscriptions as their owners created them: w1 is u1's, with any
\* filter, active or not; w2 is a wildcard subscription of either user
WebhookRows(f, u, a) ==
    [w \in WebhookIds |->
        [user_id |-> IF w = "w1" THEN "u1" ELSE u,
         url |-> <<"url", w>>, secret |-> <<"secret", w>>,
         events |-> IF w = "w1" THEN f ELSE {"*"},
         is_active |-> (w = "w2" \/ a),
         success_count |-> 0, failure_count |-> 0,
         last_triggered_at |-> NoTime]]

Init ==
    /\ events = [e \in EventIds |-> NoRow]
    /\ \E f \in FilterSets, u \in Users, a \in BOOLEAN :
            webhooks = WebhookRows(f, u, a)
    /\ queue = EmptyBag
    /\ worker = [k \in Workers |-> Idle]
    /\ faults = MaxFaults
    /\ redeliveries = MaxRedeliver
    /\ httpFailures = 0
    /\ attempts = [w \in WebhookIds |-> 0]
    /\ enqueued = [p \in WebhookIds \X EventIds |-> 0]
    /\ notifications = [n \in NotificationIds |-> NoRow]
    /\ executions = [n \in NotificationIds |-> <<>>]
    /\ bulk = NoCall
    /\ users = [u \in Users |-> [is_active |-> TRUE]]
    /\ clock = StartDay
    /\ returned = NoReturn

Next ==
    \/ \E e \in EventIds, u \in Clients, type \in EventTypes, p \in PropertyMaps :
            TrackEvent(e, u, type, p)
    \/ \E e \in EventIds : CommitRequest(e)
    \/ \E m \in Messages : Redeliver(m)
    \/ \E k \in Workers, m \in Messages : ProcessEventStart(k, m)
    \/ \E k \in Workers : ProcessEventFinish(k)
    \/ \E m \in Messages : TriggerWebhooks(m)

Spec == Init /\ [][Next]_vars

\* Spec under fair scheduling: a request that has flushed its row ends and
\* commits, and a worker that can take or finish a task does so
Fairness ==
    /\ WF_vars(\E e \in EventIds : CommitRequest(e))
    /\ WF_vars(\E k \in Workers, m \in Messages : ProcessEventStart(k, m))
    /\ WF_vars(\E k \in Workers : ProcessEventFinish(k))
    /\ WF_vars(\E m \in Messages : TriggerWebhooks(m))

SpecFair == Spec /\ Fairness

(***************************************************************************)
(* The event processor over a long run: the request that tracked the click *)
(* event of u1 has committed and process_event is queued; the event's      *)
(* timestamp, which the client supplies, is before or after the cutoff of  *)
(* the daily cleanup_old_events.                                           *)
(***************************************************************************)
\* mutant: an event stamped on the cutoff counts as older
OldEvents_Inclusive(ev, cutoff) ==
    { e \in DOMAIN ev :
        ev[e].exists /\ ev[e].committed /\ ev[e].timestamp <= cutoff }

\* the committed events older than the cutoff
OldEvents(ev, cutoff) ==
    { e \in DOMAIN ev :
        ev[e].exists /\ ev[e].committed /\ ev[e].timestamp < cutoff }

\* cleanup_old_events, lines 149-162: delete batch after batch, each in a
\* transaction of its own, until count rows are gone or a batch is empty
RECURSIVE CleanupLoop(_, _, _, _)
\* mutant: stops after the first batch
CleanupLoop_OneBatch(ev, cutoff, count, deleted) ==
    LET old == OldEvents(ev, cutoff)
        batch == CHOOSE b \in SUBSET old :
                    Cardinality(b) = IF Cardinality(old) < batch_size
                                     THEN Cardinality(old) ELSE batch_size
    IN  [events |-> [e \in DOMAIN ev |-> IF e \in batch THEN NoRow ELSE ev[e]],
         deleted |-> Cardinality(batch)]

CleanupLoop(ev, cutoff, count, deleted) ==
    IF deleted < count
    THEN LET old == OldEvents(ev, cutoff)
             batch == CHOOSE b \in SUBSET old :
                         Cardinality(b) = IF Cardinality(old) < batch_size
                                          THEN Cardinality(old) ELSE batch_size
             result == Cardinality(batch)
             left == [e \in DOMAIN ev |-> IF e \in batch THEN NoRow ELSE ev[e]]
         IN  IF result = 0
             THEN [events |-> left, deleted |-> deleted]
             ELSE CleanupLoop(left, cutoff, count, deleted + result)
    ELSE [events |-> ev, deleted |-> deleted]

\* cleanup_old_events(days_to_keep), run with no store fault
CleanupOldEvents(days_to_keep) ==
    LET cutoff_date == clock - days_to_keep
        count == Cardinality(OldEvents(events, cutoff_date))
        run == CleanupLoop(events, cutoff_date, count, 0)
    IN  /\ Len(returned) < MaxRuns
        /\ events' = run.events
        /\ returned' = Append(returned,
                          [task |-> "cleanup_old_events", at |-> clock,
                           days_to_keep |-> days_to_keep, success |-> TRUE,
                           deleted_count |-> run.deleted])
        /\ UNCHANGED <<webhooks, queue, worker, faults, redeliveries,
                       httpFailures, attempts, enqueued, notifications,
                       executions, bulk, users, clock>>

\* the row TrackEvent.mutate inserted, after the request's commit
TrackedRow(u, type, properties, timestamp) ==
    [exists |-> TRUE, committed |-> TRUE, user_id |-> u,
     event_type |-> type, properties |-> properties,
     is_processed |-> "pending", processed_at |-> NoTime,
     timestamp |-> timestamp]

InitRetry ==
    /\ \E p \in PropertyMaps, t \in {0, StartDay} :
            events = [e \in EventIds |-> TrackedRow("u1", "click", p, t)]
    /\ \E f \in FilterSets, a \in BOOLEAN :
            webhooks = WebhookRows(f, "u1", a)
    /\ queue = SetToBag({Msg("process_event", "e1", "-", 0)})
    /\ worker = [k \in Workers |-> Idle]
    /\ faults = MaxProcessFaults
    /\ redeliveries = 0
    /\ httpFailures = 0
    /\ attempts = [w \in WebhookIds |-> 0]
    /\ enqueued = [p \in WebhookIds \X EventIds |-> 0]
    /\ notifications = [n \in NotificationIds |-> NoRow]
    /\ executions = [n \in NotificationIds |-> <<>>]
    /\ bulk = NoCall
    /\ users = [u \in Users |-> [is_active |-> TRUE]]
    /\ clock = StartDay
    /\ returned = NoReturn

NextRetry ==
    \/ \E days \in RetentionDays : CleanupOldEvents(days)
    \/ \E k \in Workers, m \in Messages : ProcessEventStart(k, m)
    \/ \E k \in Workers : ProcessEventFinish(k)
    \/ \E m \in Messages : TriggerWebhooks(m)

SpecRetry == InitRetry /\ [][NextRetry]_vars

(***************************************************************************)
(* The webhook dispatcher. It starts where process_event, run once without *)
(* a fault, has committed the click event of u1 and trigger_webhooks has   *)
(* submitted the delivery to u1's wildcard subscription w1; w2 is u2's.    *)
(***************************************************************************)
ProcessedRow(type, properties) ==
    LET m == Msg("process_event", "e1", "-", 0)
    IN  [exists |-> TRUE, committed |-> TRUE, user_id |-> "u1",
         event_type |-> type, properties |-> Enrich(properties, m),
         is_processed |-> "processed", processed_at |-> Stamp(m)]

InitDelivery ==
    /\ events = [e \in EventIds |-> ProcessedRow("click", EmptyMap)]
    /\ webhooks = WebhookRows({"*"}, "u2", TRUE)
    /\ queue = Deliveries({"w1"}, "e1")
    /\ worker = [k \in Workers |-> Idle]
    /\ faults = MaxCommitFaults
    /\ redeliveries = MaxRedeliver
    /\ httpFailures = MaxHttpFailures
    /\ attempts = [w \in WebhookIds |-> 0]
    /\ enqueued = [p \in WebhookIds \X EventIds |-> IF p[1] = "w1" THEN 1 ELSE 0]
    /\ notifications = [n \in NotificationIds |-> NoRow]
    /\ executions = [n \in NotificationIds |-> <<>>]
    /\ bulk = NoCall
    /\ users = [u \in Users |-> [is_active |-> TRUE]]
    /\ clock = StartDay
    /\ returned = NoReturn

NextDelivery ==
    \/ \E u \in Clients, w \in WebhookIds, b \in BOOLEAN : UpdateWebhook(u, w, b)
    \/ \E m \in Messages : Redeliver(m)
    \/ \E k \in Workers, m \in Messages : SendSingleWebhookLoad(k, m)
    \/ \E k \in Workers, r \in HttpResponses : SendSingleWebhookFinish(k, r)

SpecDelivery == InitDelivery /\ [][NextDelivery]_vars

\* the whole pipeline of one event, from ingestion to the POST: the store
\* may fail once, the endpoints answer
InitPipeline ==
    /\ events = [e \in EventIds |-> NoRow]
    /\ \E u \in Users : webhooks = WebhookRows({"*"}, u, TRUE)
    /\ queue = EmptyBag
    /\ worker = [k \in Workers |-> Idle]
    /\ faults = MaxCommitFaults
    /\ redeliveries = 0
    /\ httpFailures = 0
    /\ attempts = [w \in WebhookIds |-> 0]
    /\ enqueued = [p \in WebhookIds \X EventIds |-> 0]
    /\ notifications = [n \in NotificationIds |-> NoRow]
    /\ executions = [n \in NotificationIds |-> <<>>]
    /\ bulk = NoCall
    /\ users = [u \in Users |-> [is_active |-> TRUE]]
    /\ clock = StartDay
    /\ returned = NoReturn

NextPipeline ==
    \/ \E e \in EventIds, u \in Clients, type \in EventTypes, p \in PropertyMaps :
            TrackEvent(e, u, type, p)
    \/ \E e \in EventIds : CommitRequest(e)
    \/ \E k \in Workers, m \in Messages : ProcessEventStart(k, m)
    \/ \E k \in Workers : ProcessEventFinish(k)
    \/ \E m \in Messages : TriggerWebhooks(m)
    \/ \E k \in Workers, m \in Messages : SendSingleWebhookLoad(k, m)
    \/ \E k \in Workers, r \in HttpResponses : SendSingleWebhookFinish(k, r)

SpecPipeline == InitPipeline /\ [][NextPipeline]_vars

\* one delivery task over a long run: the endpoint may fail on every attempt
InitPost ==
    /\ events = [e \in EventIds |-> ProcessedRow("click", EmptyMap)]
    /\ webhooks = WebhookRows({"*"}, "u2", TRUE)
    /\ queue = Deliveries({"w1"}, "e1")
    /\ worker = [k \in Workers |-> Idle]
    /\ faults = MaxCommitFaults
    /\ redeliveries = 0
    /\ httpFailures = MaxPostFailures
    /\ attempts = [w \in WebhookIds |-> 0]
    /\ enqueued = [p \in WebhookIds \X EventIds |-> IF p[1] = "w1" THEN 1 ELSE 0]
    /\ notifications = [n \in NotificationIds |-> NoRow]
    /\ executions = [n \in NotificationIds |-> <<>>]
    /\ bulk = NoCall
    /\ users = [u \in Users |-> [is_active |-> TRUE]]
    /\ clock = StartDay
    /\ returned = NoReturn

NextPost ==
    \/ \E u \in Clients, w \in WebhookIds, b \in BOOLEAN : UpdateWebhook(u, w, b)
    \/ \E k \in Workers, m \in Messages : SendSingleWebhookLoad(k, m)
    \/ \E k \in Workers, r \in HttpResponses : SendSingleWebhookFinish(k, r)

SpecPost == InitPost /\ [][NextPost]_vars


(***************************************************************************)
(* The notification dispatcher (tasks/notifications.py).                   *)
(***************************************************************************)
NMsg(task, n, r) ==
    [task |-> task, notification |-> n, retries |-> r, countdown |-> 0]

NStamp(m) == <<m.task, m.notification, m.retries>>

\* the event-pipeline state, untouched by the notification dispatcher
pvars == <<events, webhooks, worker, httpFailures, attempts, enqueued>>

\* the row create_and_send_notification inserts (lines 125-134)
NewNotification(u, type) ==
    [exists |-> TRUE, user_id |-> u, notification_type |-> type,
     status |-> "pending", error_message |-> NULL,
     retry_count |-> 0, sent_at |-> NoTime,
     is_read |-> FALSE, read_at |-> NoTime]

\* mutant: the webhook channel is dispatched to a task as well
Dispatch_Webhook(n, type) ==
    IF type = "email"
    THEN SetToBag({NMsg("send_email_notification", n, 0)})
    ELSE IF type = "webhook"
    THEN SetToBag({NMsg("send_webhook_notification", n, 0)})
    ELSE EmptyBag

\* lines 139-140: the tasks create_and_send_notification submits
Dispatch(n, type) ==
    IF type = "email"
    THEN SetToBag({NMsg("send_email_notification", n, 0)})
    ELSE EmptyBag

\* create_and_send_notification with q the queue it runs against: insert
\* the pending row and commit, then dispatch by channel; a submit or a
\* second commit that raises is caught, rolled back and reported
CreateAndSend(q, n, u, type) ==
    /\ ~notifications[n].exists
    /\ \/ /\ type # "in_app"
          /\ notifications' = [notifications EXCEPT ![n] = NewNotification(u, type)]
          /\ queue' = q (+) Dispatch(n, type)
          /\ UNCHANGED faults
       \/ /\ type = "in_app"
          /\ notifications' = [notifications EXCEPT ![n] =
                [NewNotification(u, type) EXCEPT
                    !.status = "sent",
                    !.sent_at = <<"create_and_send_notification", n, 0>>]]
          /\ queue' = q
          /\ UNCHANGED faults
       \/ /\ type \in {"email", "in_app"}
          /\ faults > 0
          /\ faults' = faults - 1
          /\ notifications' = [notifications EXCEPT ![n] = NewNotification(u, type)]
          /\ queue' = q
    /\ UNCHANGED <<pvars, redeliveries, executions>>

\* create_and_send_notification called by a client
CreateAndSendNotification(n, u, type) ==
    /\ CreateAndSend(queue, n, u, type)
    /\ UNCHANGED <<bulk, mvars>>

\* a caller submits send_email_notification with an id of its choice, which
\* may name no notification or one of another channel
SubmitEmailNotification(n) ==
    /\ executions[n] = <<>>
    /\ \A m \in Messages : m.notification # n
    /\ queue' = queue (+) SetToBag({NMsg("send_email_notification", n, 0)})
    /\ UNCHANGED <<pvars, faults, redeliveries, nvars>>

\* the caller of send_webhook_notification supplies url and secret for a
\* notification of the webhook channel (once per notification)
SubmitWebhookNotification(n) ==
    /\ notifications[n].exists
    /\ notifications[n].notification_type = "webhook"
    /\ executions[n] = <<>>
    /\ \A m \in Messages : m.notification # n
    /\ queue' = queue (+) SetToBag({NMsg("send_webhook_notification", n, 0)})
    /\ UNCHANGED <<pvars, faults, redeliveries, nvars>>

\* mutant: only a missing notification is a permanent error
PermanentError_MissingOnly(row) == ~row.exists

\* send_email_notification, lines 23-31: the errors it returns at once
PermanentError(row) ==
    \/ ~row.exists
    \/ row.notification_type # "email"
    \/ row.user_id \notin Users

\* send_email_notification; mailOk is whether the mail client returns or
\* raises, recorded in executions when the client is invoked
SendEmailNotification(m, mailOk) ==
    /\ BagIn(m, queue)
    /\ m.task = "send_email_notification"
    /\ LET n == m.notification
           row == notifications[n]
       IN  IF PermanentError(row)
           THEN /\ queue' = Take(m)
                /\ UNCHANGED <<notifications, executions>>
           ELSE IF mailOk
           THEN /\ notifications' = [notifications EXCEPT
                        ![n].status = "sent", ![n].sent_at = NStamp(m)]
                /\ executions' = [executions EXCEPT ![n] = Append(@, TRUE)]
                /\ queue' = Take(m)
           ELSE /\ notifications' = [notifications EXCEPT
                        ![n].status = "failed",
                        ![n].error_message = "SMTPException",
                        ![n].retry_count = @ + 1]
                /\ executions' = [executions EXCEPT ![n] = Append(@, FALSE)]
                /\ queue' = Take(m) (+) Retry(m, SendEmailMaxRetries)
    /\ UNCHANGED <<pvars, faults, redeliveries, bulk, mvars>>

\* mutant: result.get('error') without a default
ResultError_NoDefault(response, default) ==
    IF response.kind = "response" THEN NULL
    ELSE IF response.kind = "timeout" THEN "Request timed out"
    ELSE "RequestException"

\* WebhookService.send_webhook: result.get('error', default); a response
\* carries no 'error' key
ResultError(response, default) ==
    IF response.kind = "response" THEN default
    ELSE IF response.kind = "timeout" THEN "Request timed out"
    ELSE "RequestException"

\* mutant: gives up one failure late (> instead of >=)
RecordWebhookResult_Late(row, response, now) ==
    IF send_webhook(response)
    THEN [row EXCEPT !.status = "sent", !.sent_at = now]
    ELSE IF row.retry_count + 1 > RetryCountLimit
    THEN [row EXCEPT !.retry_count = @ + 1, !.status = "failed",
                     !.error_message = ResultError(response, "Max retries exceeded")]
    ELSE [row EXCEPT !.retry_count = @ + 1]

\* send_webhook_notification, lines 94-101
RecordWebhookResult(row, response, now) ==
    IF send_webhook(response)
    THEN [row EXCEPT !.status = "sent", !.sent_at = now]
    ELSE IF row.retry_count + 1 >= RetryCountLimit
    THEN [row EXCEPT !.retry_count = @ + 1, !.status = "failed",
                     !.error_message = ResultError(response, "Max retries exceeded")]
    ELSE [row EXCEPT !.retry_count = @ + 1]

\* send_webhook_notification
SendWebhookNotification(m, response) ==
    /\ BagIn(m, queue)
    /\ m.task = "send_webhook_notification"
    /\ LET n == m.notification
       IN  IF ~notifications[n].exists
           THEN /\ queue' = Take(m)
                /\ UNCHANGED nvars
           ELSE /\ notifications' = [notifications EXCEPT
                        ![n] = RecordWebhookResult(@, response, NStamp(m))]
                /\ executions' = [executions EXCEPT
                        ![n] = Append(@, send_webhook(response))]
                /\ queue' = Take(m) (+)
                        (IF send_webhook(response) THEN EmptyBag
                         ELSE Retry(m, SendWebhookNotificationMaxRetries))
    /\ UNCHANGED <<pvars, faults, redeliveries, bulk, mvars>>

InitNotif ==
    /\ events = [e \in EventIds |-> NoRow]
    /\ webhooks = WebhookRows({"*"}, "u2", TRUE)
    /\ queue = EmptyBag
    /\ worker = [k \in Workers |-> Idle]
    /\ faults = MaxCommitFaults
    /\ redeliveries = MaxRedeliver
    /\ httpFailures = 0
    /\ attempts = [w \in WebhookIds |-> 0]
    /\ enqueued = [p \in WebhookIds \X EventIds |-> 0]
    /\ notifications = [n \in NotificationIds |-> NoRow]
    /\ executions = [n \in NotificationIds |-> <<>>]
    /\ bulk = NoCall
    /\ users = [u \in Users |-> [is_active |-> TRUE]]
    /\ clock = StartDay
    /\ returned = NoReturn

NextNotif ==
    \/ \E n \in NotificationIds, u \in Clients, type \in Channels :
            CreateAndSendNotification(n, u, type)
    \/ \E n \in NotificationIds : SubmitEmailNotification(n)
    \/ \E n \in NotificationIds : SubmitWebhookNotification(n)
    \/ \E m \in Messages : Redeliver(m)
    \/ \E m \in Messages, mailOk \in BOOLEAN : SendEmailNotification(m, mailOk)
    \/ \E m \in Messages, r \in HttpResponses : SendWebhookNotification(m, r)

SpecNotif == InitNotif /\ [][NextNotif]_vars

(***************************************************************************)
(* send_bulk_notifications, called once, with the tasks it submits.        *)
(***************************************************************************)
\* the user_ids lists a caller passes
UserLists == UNION { [1..k -> Users] : k \in 0..MaxUserIds }

\* the message of the i-th create_and_send_notification.delay of the loop;
\* i stands for the task id of the handle
CMsg(i, u, type) ==
    [task |-> "create_and_send_notification", notification |-> "-",
     retries |-> 0, countdown |-> 0, task_id |-> i, user_id |-> u,
     type |-> type]

\* send_bulk_notifications: the loop of lines 163-167 has no handler, so a
\* submit that raises ends the task with the exception and no result
SendBulkNotifications(user_ids, type) ==
    /\ ~bulk.called
    /\ LET Submitted(k) ==
               SetToBag({ CMsg(i, user_ids[i], type) : i \in 1..k })
           Handles(k) ==
               [i \in 1..k |-> [user_id |-> user_ids[i], task_id |-> i]]
           n == Len(user_ids)
       IN  \/ /\ queue' = queue (+) Submitted(n)
              /\ bulk' = [called |-> TRUE, user_ids |-> user_ids,
                          submitted |-> n, raised |-> FALSE,
                          results |-> Handles(n)]
              /\ UNCHANGED faults
           \/ /\ faults > 0
              /\ faults' = faults - 1
              /\ \E i \in 1..n :
                    /\ queue' = queue (+) Submitted(i - 1)
                    /\ bulk' = [called |-> TRUE, user_ids |-> user_ids,
                                submitted |-> i - 1, raised |-> TRUE,
                                results |-> <<>>]
    /\ UNCHANGED <<pvars, redeliveries, notifications, executions, mvars>>

\* a worker runs a submitted create_and_send_notification
CreateAndSendNotificationTask(m) ==
    /\ BagIn(m, queue)
    /\ m.task = "create_and_send_notification"
    /\ \E n \in NotificationIds : CreateAndSend(Take(m), n, m.user_id, m.type)
    /\ UNCHANGED <<bulk, mvars>>

InitBulk ==
    /\ events = [e \in EventIds |-> NoRow]
    /\ webhooks = WebhookRows({"*"}, "u2", TRUE)
    /\ queue = EmptyBag
    /\ worker = [k \in Workers |-> Idle]
    /\ faults = MaxCommitFaults
    /\ redeliveries = 0
    /\ httpFailures = 0
    /\ attempts = [w \in WebhookIds |-> 0]
    /\ enqueued = [p \in WebhookIds \X EventIds |-> 0]
    /\ notifications = [n \in NotificationIds |-> NoRow]
    /\ executions = [n \in NotificationIds |-> <<>>]
    /\ bulk = NoCall
    /\ users = [u \in Users |-> [is_active |-> TRUE]]
    /\ clock = StartDay
    /\ returned = NoReturn

NextBulk ==
    \/ \E user_ids \in UserLists, type \in Channels :
            SendBulkNotifications(user_ids, type)
    \/ \E m \in Messages : CreateAndSendNotificationTask(m)
    \/ \E m \in Messages, mailOk \in BOOLEAN : SendEmailNotification(m, mailOk)

SpecBulk == InitBulk /\ [][NextBulk]_vars

(***************************************************************************)
(* The scheduled maintenance (tasks/aggregations.py) over a store of       *)
(* committed events of both users, stamped on any day up to today.         *)
(***************************************************************************)
MaintEventIds == {"e1", "e2", "e3"}
MaintNotificationIds == {"n1", "n2"}
Days == 0..StartDay

\* a day passes
Tick ==
    /\ clock < StartDay + MaxDays
    /\ clock' = clock + 1
    /\ UNCHANGED <<pvars, queue, faults, redeliveries, notifications,
                   executions, bulk, users, returned>>

\* mutant: the window has no upper end
generate_user_daily_report_Open(ev, u, day) ==
    Cardinality({ e \in DOMAIN ev :
        /\ ev[e].exists /\ ev[e].committed
        /\ ev[e].user_id = u
        /\ ev[e].timestamp >= day })

\* generate_user_daily_report: total_events, the number of the user's
\* events stamped within the day; the report is None when it is 0
generate_user_daily_report(ev, u, day) ==
    Cardinality({ e \in DOMAIN ev :
        /\ ev[e].exists /\ ev[e].committed
        /\ ev[e].user_id = u
        /\ ev[e].timestamp >= day /\ ev[e].timestamp <= day })

\* the notification ids, in the order the store hands them out
IdOrder == <<"n1", "n2", "n3", "n4">>
IdIndex(n) == CHOOSE i \in 1..Len(IdOrder) : IdOrder[i] = n

\* the id the store gives the report notification of user u: the loop of
\* line 28 adds one row per reported user, each under an id not yet in use
ReportId(u, reported, free) ==
    CHOOSE n \in free :
        Cardinality({ x \in free : IdIndex(x) <= IdIndex(n) })
            = (IF u = "u1" \/ "u1" \notin reported THEN 1 ELSE 2)

\* generate_daily_report, run with no store fault
GenerateDailyReport ==
    LET yesterday == clock - 1
        reported == { u \in Users :
                        /\ users[u].is_active
                        /\ generate_user_daily_report(events, u, yesterday) > 0 }
        free == { n \in DOMAIN notifications : ~notifications[n].exists }
    IN  /\ Len(returned) < MaxRuns
        /\ Cardinality(free) >= Cardinality(reported)
        /\ notifications' =
              [n \in DOMAIN notifications |->
                 IF \E u \in reported : ReportId(u, reported, free) = n
                 THEN [NewNotification(
                         CHOOSE u \in reported : ReportId(u, reported, free) = n,
                         "in_app")
                         EXCEPT !.status = "sent",
                                !.sent_at = <<"generate_daily_report", n, clock>>]
                 ELSE notifications[n]]
        /\ returned' = Append(returned,
                          [task |-> "generate_daily_report", at |-> clock,
                           success |-> TRUE,
                           reports_generated |-> Cardinality(reported)])
        /\ UNCHANGED <<pvars, queue, faults, redeliveries, executions, bulk,
                       users, clock>>

\* an event row as process_event left it
StoredRow(u, status, timestamp) ==
    [TrackedRow(u, "click", EmptyMap, timestamp) EXCEPT !.is_processed = status]

InitMaint ==
    /\ \E r1 \in {NoRow} \cup { StoredRow("u1", st, t) :
                                   st \in {"pending", "processed"}, t \in Days },
          r2 \in {NoRow} \cup { StoredRow("u1", "processed", t) : t \in Days },
          r3 \in {NoRow} \cup { StoredRow("u2", "failed", t) : t \in Days } :
            events = [e \in MaintEventIds |->
                        IF e = "e1" THEN r1 ELSE IF e = "e2" THEN r2 ELSE r3]
    /\ webhooks = WebhookRows({"*"}, "u2", TRUE)
    /\ queue = EmptyBag
    /\ worker = [k \in Workers |-> Idle]
    /\ faults = 0
    /\ redeliveries = 0
    /\ httpFailures = 0
    /\ attempts = [w \in WebhookIds |-> 0]
    /\ enqueued = [p \in WebhookIds \X EventIds |-> 0]
    /\ notifications = [n \in MaintNotificationIds |-> NoRow]
    /\ executions = [n \in MaintNotificationIds |-> <<>>]
    /\ bulk = NoCall
    /\ users \in [Users -> [is_active : BOOLEAN]]
    /\ clock = StartDay
    /\ returned = NoReturn

NextMaint ==
    \/ Tick
    \/ \E days \in RetentionDays : CleanupOldEvents(days)
    \/ GenerateDailyReport

SpecMaint == InitMaint /\ [][NextMaint]_vars

\* the scheduled report, which the broker may deliver more than once and
\* which runs again every day, on a store with room for every report
ReportNotificationIds == { IdOrder[i] : i \in 1..Len(IdOrder) }

InitReport ==
    /\ \E r1 \in {NoRow} \cup { StoredRow("u1", "processed", t) : t \in Days },
          r3 \in {NoRow} \cup { StoredRow("u2", "failed", t) : t \in Days } :
            events = [e \in MaintEventIds |->
                        IF e = "e1" THEN r1
                        ELSE IF e = "e2" THEN NoRow ELSE r3]
    /\ webhooks = WebhookRows({"*"}, "u2", TRUE)
    /\ queue = EmptyBag
    /\ worker = [k \in Workers |-> Idle]
    /\ faults = 0
    /\ redeliveries = 0
    /\ httpFailures = 0
    /\ attempts = [w \in WebhookIds |-> 0]
    /\ enqueued = [p \in WebhookIds \X EventIds |-> 0]
    /\ notifications = [n \in ReportNotificationIds |-> NoRow]
    /\ executions = [n \in ReportNotificationIds |-> <<>>]
    /\ bulk = NoCall
    /\ users \in [Users -> [is_active : BOOLEAN]]
    /\ clock = StartDay
    /\ returned = NoReturn

NextReport ==
    \/ Tick
    \/ GenerateDailyReport

SpecReport == InitReport /\ [][NextReport]_vars

(***************************************************************************)
(* The inbox: the notifications of the users and the GraphQL mutations     *)
(* that create and read them (graphql/mutations/notifications.py).         *)
(***************************************************************************)
\* mutant: the row is created as sent without a sent_at
CreateInAppNotification_NoStamp(n, u) ==
    /\ ~notifications[n].exists
    /\ notifications' = [notifications EXCEPT ![n] =
            [NewNotification(u, "in_app") EXCEPT !.status = "sent"]]
    /\ UNCHANGED <<pvars, queue, faults, redeliveries, executions, bulk, mvars>>

\* CreateInAppNotification.mutate by user u
CreateInAppNotification(n, u) ==
    /\ ~notifications[n].exists
    /\ notifications' = [notifications EXCEPT ![n] =
            [NewNotification(u, "in_app") EXCEPT
                !.status = "sent",
                !.sent_at = <<"CreateInAppNotification", n, clock>>]]
    /\ UNCHANGED <<pvars, queue, faults, redeliveries, executions, bulk, mvars>>

\* MarkNotificationRead.mutate by user u with the id n: lines 42-43 are
\* not conditional on the row's is_read or status
MarkNotificationRead(u, n) ==
    /\ notifications[n].exists
    /\ notifications[n].user_id = u
    /\ notifications' = [notifications EXCEPT
            ![n].is_read = TRUE,
            ![n].read_at = <<"read", clock>>]
    /\ UNCHANGED <<pvars, queue, faults, redeliveries, executions, bulk, mvars>>

\* MarkAllNotificationsRead.mutate by user u: one UPDATE of the user's
\* unread rows
MarkAllNotificationsRead(u) ==
    LET unread == { n \in DOMAIN notifications :
                      /\ notifications[n].exists
                      /\ notifications[n].user_id = u
                      /\ notifications[n].is_read = FALSE }
    IN  /\ unread # {}
        /\ notifications' =
              [n \in DOMAIN notifications |->
                 IF n \in unread
                 THEN [notifications[n] EXCEPT !.is_read = TRUE,
                                               !.read_at = <<"read", clock>>]
                 ELSE notifications[n]]
        /\ UNCHANGED <<pvars, queue, faults, redeliveries, executions, bulk,
                       mvars>>

InitInbox ==
    /\ events = [e \in EventIds |-> NoRow]
    /\ webhooks = WebhookRows({"*"}, "u2", TRUE)
    /\ queue = EmptyBag
    /\ worker = [k \in Workers |-> Idle]
    /\ faults = 0
    /\ redeliveries = 0
    /\ httpFailures = 0
    /\ attempts = [w \in WebhookIds |-> 0]
    /\ enqueued = [p \in WebhookIds \X EventIds |-> 0]
    /\ notifications = [n \in MaintNotificationIds |-> NoRow]
    /\ executions = [n \in MaintNotificationIds |-> <<>>]
    /\ bulk = NoCall
    /\ users = [u \in Users |-> [is_active |-> TRUE]]
    /\ clock = StartDay
    /\ returned = NoReturn

NextInbox ==
    \/ Tick
    \/ \E n \in MaintNotificationIds, u \in Users :
            CreateInAppNotification(n, u)
    \/ \E n \in MaintNotificationIds, u \in Clients, type \in Channels :
            CreateAndSendNotification(n, u, type)
    \/ \E m \in Messages, mailOk \in BOOLEAN : SendEmailNotification(m, mailOk)
    \/ \E u \in Users, n \in MaintNotificationIds : MarkNotificationRead(u, n)
    \/ \E u \in Users : MarkAllNotificationsRead(u)

SpecInbox == InitInbox /\ [][NextInbox]_vars

\* every operation that writes the status sent, on one store
InitSent ==
    /\ events = [e \in MaintEventIds |->
                    IF e = "e1" THEN StoredRow("u1", "processed", StartDay - 1)
                    ELSE NoRow]
    /\ webhooks = WebhookRows({"*"}, "u2", TRUE)
    /\ queue = EmptyBag
    /\ worker = [k \in Workers |-> Idle]
    /\ faults = 0
    /\ redeliveries = 0
    /\ httpFailures = 0
    /\ attempts = [w \in WebhookIds |-> 0]
    /\ enqueued = [p \in WebhookIds \X EventIds |-> 0]
    /\ notifications = [n \in MaintNotificationIds |-> NoRow]
    /\ executions = [n \in MaintNotificationIds |-> <<>>]
    /\ bulk = NoCall
    /\ users = [u \in Users |-> [is_active |-> TRUE]]
    /\ clock = StartDay
    /\ returned = NoReturn

NextSent ==
    \/ \E n \in MaintNotificationIds, u \in Users :
            CreateInAppNotification(n, u)
    \/ \E n \in MaintNotificationIds, u \in Clients, type \in Channels :
            CreateAndSendNotification(n, u, type)
    \/ \E n \in MaintNotificationIds : SubmitWebhookNotification(n)
    \/ \E m \in Messages, mailOk \in BOOLEAN : SendEmailNotification(m, mailOk)
    \/ \E m \in Messages, r \in HttpResponses : SendWebhookNotification(m, r)
    \/ GenerateDailyReport

SpecSent == InitSent /\ [][NextSent]_vars

(***************************************************************************)
(* The retry schedule: two submitted tasks of any of the five retried      *)
(* kinds, each of which may fail on every execution.                       *)
(***************************************************************************)
\* max_retries of each task
MaxRetries(task) ==
    CASE task = "process_event" -> ProcessEventMaxRetries
      [] task = "trigger_webhooks" -> TriggerWebhooksMaxRetries
      [] task = "send_single_webhook" -> SendSingleWebhookMaxRetries
      [] task = "send_email_notification" -> SendEmailMaxRetries
      [] task = "send_webhook_notification" -> SendWebhookNotificationMaxRetries

\* the messages a .delay of each task puts in the queue
FreshTasks ==
    { Msg("process_event", "e1", "-", 0), Msg("trigger_webhooks", "e1", "-", 0),
      Msg("send_single_webhook", "e1", "w1", 0),
      NMsg("send_email_notification", "n1", 0),
      NMsg("send_webhook_notification", "n1", 0) }

\* an execution of m raises: the except branch of the task calls self.retry
TaskFails(m) ==
    /\ BagIn(m, queue)
    /\ queue' = Take(m) (+) Retry(m, MaxRetries(m.task))
    /\ UNCHANGED <<pvars, faults, redeliveries, nvars>>

InitBackoff ==
    /\ events = [e \in EventIds |-> NoRow]
    /\ webhooks = WebhookRows({"*"}, "u2", TRUE)
    /\ \E a \in FreshTasks, b \in FreshTasks :
            queue = SetToBag({a}) (+) SetToBag({b})
    /\ worker = [k \in Workers |-> Idle]
    /\ faults = 0
    /\ redeliveries = 0
    /\ httpFailures = 0
    /\ attempts = [w \in WebhookIds |-> 0]
    /\ enqueued = [p \in WebhookIds \X EventIds |-> 0]
    /\ notifications = [n \in NotificationIds |-> NoRow]
    /\ executions = [n \in NotificationIds |-> <<>>]
    /\ bulk = NoCall
    /\ users = [u \in Users |-> [is_active |-> TRUE]]
    /\ clock = StartDay
    /\ returned = NoReturn

NextBackoff == \E m \in Messages : TaskFails(m)

SpecBackoff == InitBackoff /\ [][NextBackoff]_vars

(***************************************************************************)
(* cleanup_old_events batch by batch, each batch a transaction of its own, *)
(* next to requests that ingest events with a timestamp of their choosing. *)
(***************************************************************************)
\* the events stored before the run, and the ids of later ingestions
StoredEventIds == {"e1", "e2"}
NewEventIds == {"e3"}

\* TrackEvent.mutate with a timestamp argument, and the commit that ends the
\* request; an id is a fresh UUID, used once
TrackEventAt(e, u, timestamp) ==
    /\ ~events[e].exists
    /\ ~BagIn(Msg("process_event", e, "-", 0), queue)
    /\ events' = [events EXCEPT ![e] = TrackedRow(u, "click", EmptyMap, timestamp)]
    /\ queue' = queue (+) SetToBag({Msg("process_event", e, "-", 0)})
    /\ UNCHANGED <<webhooks, worker, faults, redeliveries, httpFailures,
                   attempts, enqueued, nvars>>

\* lines 139-147 and 166-168: the cutoff and the count; nothing to do when
\* the count is 0
CleanupStart(k, days_to_keep) ==
    LET cutoff_date == clock - days_to_keep
        counted == OldEvents(events, cutoff_date)
    IN  /\ Free(k)
        /\ Len(returned) < MaxRuns
        /\ IF counted # {}
           THEN /\ worker' = [worker EXCEPT ![k] =
                     [task |-> "cleanup_old_events",
                      days_to_keep |-> days_to_keep,
                      cutoff_date |-> cutoff_date,
                      counted |-> counted, count |-> Cardinality(counted),
                      deleted |-> 0, batches |-> <<>>]]
                /\ UNCHANGED returned
           ELSE /\ returned' = Append(returned,
                     [task |-> "cleanup_old_events", at |-> clock,
                      days_to_keep |-> days_to_keep, success |-> TRUE,
                      deleted_count |-> 0, cutoff_date |-> cutoff_date,
                      counted |-> counted, count |-> 0, batches |-> <<>>])
                /\ UNCHANGED worker
        /\ UNCHANGED <<events, webhooks, queue, faults, redeliveries,
                       httpFailures, attempts, enqueued, notifications,
                       executions, bulk, users, clock>>

\* mutant: the subquery has no LIMIT
Batches_Unlimited(old) == {old}

\* lines 150-152: the rows a LIMIT batch_size subquery without ORDER BY may
\* return: any batch_size of the matching rows, or all when there are fewer
Batches(old) ==
    { b \in SUBSET old :
        Cardinality(b) = IF Cardinality(old) < batch_size
                         THEN Cardinality(old) ELSE batch_size }

\* lines 149-165: one pass of the loop: delete a batch, commit, add to the
\* total; return when a batch was empty or the total has reached the count
CleanupBatch(k) ==
    /\ worker[k].task = "cleanup_old_events"
    /\ \E batch \in Batches(OldEvents(events, worker[k].cutoff_date)) :
         LET w == worker[k]
             result == Cardinality(batch)
             deleted == w.deleted + result
         IN  /\ events' = [e \in DOMAIN events |->
                              IF e \in batch THEN NoRow ELSE events[e]]
             /\ IF result = 0 \/ ~(deleted < w.count)
                THEN /\ worker' = [worker EXCEPT ![k] = Idle]
                     /\ returned' = Append(returned,
                          [task |-> "cleanup_old_events", at |-> clock,
                           days_to_keep |-> w.days_to_keep, success |-> TRUE,
                           deleted_count |-> deleted,
                           cutoff_date |-> w.cutoff_date,
                           counted |-> w.counted, count |-> w.count,
                           batches |-> Append(w.batches, result)])
                ELSE /\ worker' = [worker EXCEPT ![k] =
                          [w EXCEPT !.deleted = deleted,
                                    !.batches = Append(@, result)]]
                     /\ UNCHANGED returned
    /\ UNCHANGED <<webhooks, queue, faults, redeliveries, httpFailures,
                   attempts, enqueued, notifications, executions, bulk,
                   users, clock>>

InitCleanup ==
    /\ \E r1 \in {NoRow} \cup { StoredRow("u1", "processed", t) : t \in Days },
          r2 \in {NoRow} \cup { StoredRow("u2", "failed", t) : t \in Days } :
            events = [e \in MaintEventIds |->
                        IF e = "e1" THEN r1
                        ELSE IF e = "e2" THEN r2 ELSE NoRow]
    /\ webhooks = WebhookRows({"*"}, "u2", TRUE)
    /\ queue = EmptyBag
    /\ worker = [k \in Workers |-> Idle]
    /\ faults = 0
    /\ redeliveries = 0
    /\ httpFailures = 0
    /\ attempts = [w \in WebhookIds |-> 0]
    /\ enqueued = [p \in WebhookIds \X EventIds |-> 0]
    /\ notifications = [n \in MaintNotificationIds |-> NoRow]
    /\ executions = [n \in MaintNotificationIds |-> <<>>]
    /\ bulk = NoCall
    /\ users = [u \in Users |-> [is_active |-> TRUE]]
    /\ clock = StartDay
    /\ returned = NoReturn

NextCleanup ==
    \/ \E e \in NewEventIds, u \in Clients, t \in Days : TrackEventAt(e, u, t)
    \/ \E k \in Workers, days \in RetentionDays : CleanupStart(k, days)
    \/ \E k \in Workers : CleanupBatch(k)

\* a worker that has started a run goes on with it
SpecCleanup ==
    /\ InitCleanup /\ [][NextCleanup]_vars
    /\ \A k \in Workers : WF_vars(CleanupBatch(k))

(***************************************************************************)
(* generate_event_aggregations, called once with any short time_range; a   *)
(* string is the sequence of its characters.                               *)
(***************************************************************************)
Digits == {"1", "2"}
Chars == Digits \cup {"x", "d", "w", "m"}
TimeRanges == UNION { [1..k -> Chars] : k \in 0..MaxRangeLen }

DigitValue(c) == IF c = "1" THEN 1 ELSE 2

\* int(text): the number written by a non-empty string of digits, and a
\* ValueError for the empty string or any other character
RECURSIVE int(_)
int(text) ==
    IF text = <<>> \/ \E i \in 1..Len(text) : text[i] \notin Digits
    THEN [ok |-> FALSE, value |-> 0]
    ELSE IF Len(text) = 1
    THEN [ok |-> TRUE, value |-> DigitValue(text[1])]
    ELSE [ok |-> TRUE,
          value |-> 10 * int(SubSeq(text, 1, Len(text) - 1)).value
                      + DigitValue(text[Len(text)])]

\* str.endswith(c) for a one-character c
endswith(text, c) == text # <<>> /\ text[Len(text)] = c

\* generate_event_aggregations, lines 186-193: the days of the window, or
\* the ValueError of int()
ParseTimeRange(time_range) ==
    LET count == int(SubSeq(time_range, 1, Len(time_range) - 1))
    IN  IF endswith(time_range, "d")
        THEN [ok |-> count.ok, days |-> count.value]
        ELSE IF endswith(time_range, "w")
        THEN [ok |-> count.ok, days |-> count.value * 7]
        ELSE IF endswith(time_range, "m")
        THEN [ok |-> count.ok, days |-> count.value * 30]
        ELSE [ok |-> TRUE, days |-> 7]

\* generate_event_aggregations(user_id, time_range): an exception of the
\* parse is caught by lines 221-223 and reported as a failure
GenerateEventAggregations(user_id, time_range) ==
    /\ returned = <<>>
    /\ returned' =
          <<[task |-> "generate_event_aggregations", at |-> clock,
             user_id |-> user_id, time_range |-> time_range,
             success |-> ParseTimeRange(time_range).ok,
             days |-> ParseTimeRange(time_range).days]>>
    /\ UNCHANGED <<pvars, queue, faults, redeliveries, notifications,
                   executions, bulk, users, clock>>

InitAggregate ==
    /\ events = [e \in MaintEventIds |-> NoRow]
    /\ webhooks = WebhookRows({"*"}, "u2", TRUE)
    /\ queue = EmptyBag
    /\ worker = [k \in Workers |-> Idle]
    /\ faults = 0
    /\ redeliveries = 0
    /\ httpFailures = 0
    /\ attempts = [w \in WebhookIds |-> 0]
    /\ enqueued = [p \in WebhookIds \X EventIds |-> 0]
    /\ notifications = [n \in MaintNotificationIds |-> NoRow]
    /\ executions = [n \in MaintNotificationIds |-> <<>>]
    /\ bulk = NoCall
    /\ users = [u \in Users |-> [is_active |-> TRUE]]
    /\ clock = StartDay
    /\ returned = NoReturn

NextAggregate ==
    \E u \in Users, t \in TimeRanges : GenerateEventAggregations(u, t)

SpecAggregate == InitAggregate /\ [][NextAggregate]_vars

(***************************************************************************)
(* WebhookService.generate_signature and verify_signature.  A str is the   *)
(* sequence of its code points, a bytes value the sequence of its bytes.   *)
(* SHA-256 is taken to be free of collisions: a digest is written as the   *)
(* data it was computed from.                                              *)
(***************************************************************************)
\* the strings the signer is tried on: '', '\0', 'a', 'a\0' and a
\* non-ASCII one
Texts == { <<>>, <<0>>, <<97>>, <<97, 0>>, <<233>> }

\* hashlib.sha256().block_size, in bytes
block_size == 64

\* str.encode('utf-8'), for code points below 2048
RECURSIVE encode(_)
encode(text) ==
    IF text = <<>> THEN <<>>
    ELSE LET c == Head(text)
         IN  (IF c < 128 THEN <<c>> ELSE <<192 + (c \div 64), 128 + (c % 64)>>)
                \o encode(Tail(text))

sha256(data) == [hash |-> "sha256", data |-> data]

\* the key of an HMAC (RFC 2104): a key longer than a block is hashed, and
\* the key is then filled with zero bytes up to the block size
HmacKey(key) ==
    IF Len(key) > block_size
    THEN [hashed |-> TRUE, digest |-> sha256(key), block |-> <<>>]
    ELSE [hashed |-> FALSE, digest |-> sha256(<<>>),
          block |-> key \o [i \in 1..(block_size - Len(key)) |-> 0]]

\* hmac.new(key, msg, sha256): H((K xor opad) || H((K xor ipad) || msg)); the
\* block of K has a fixed length, so the pair stands for the concatenation
hmac_new(key, msg) ==
    sha256(<<[pad |-> "opad", key |-> HmacKey(key)],
             sha256(<<[pad |-> "ipad", key |-> HmacKey(key)], msg>>)>>)

\* .hexdigest(): 64 lowercase hexadecimal digits, told from any other str
hexdigest(digest) == [kind |-> "hexdigest", of |-> digest]
Text(text) == [kind |-> "text", of |-> text]

generate_signature(payload, secret) ==
    hexdigest(hmac_new(encode(secret), encode(payload)))

\* hmac.compare_digest(a, b) on two str: a TypeError unless both are ASCII
compare_digest(expected, signature) ==
    IF signature.kind = "text" /\ \E i \in 1..Len(signature.of) :
                                        signature.of[i] >= 128
    THEN "TypeError"
    ELSE IF signature.kind = expected.kind /\ signature.of = expected.of
    THEN "True"
    ELSE "False"

verify_signature(payload, signature, secret) ==
    compare_digest(generate_signature(payload, secret), signature)

\* a sender signs payload with secret
GenerateSignature(payload, secret) ==
    /\ returned = <<>>
    /\ returned' = <<[task |-> "generate_signature", payload |-> payload,
                      secret |-> secret,
                      signature |-> generate_signature(payload, secret)]>>
    /\ UNCHANGED <<pvars, queue, faults, redeliveries, notifications,
                   executions, bulk, users, clock>>

\* a receiver verifies what it was sent
VerifySignature(payload, signature, secret) ==
    /\ Len(returned) = 1
    /\ returned' = Append(returned,
                      [task |-> "verify_signature", payload |-> payload,
                       secret |-> secret, signature |-> signature,
                       result |-> verify_signature(payload, signature, secret)])
    /\ UNCHANGED <<pvars, queue, faults, redeliveries, notifications,
                   executions, bulk, users, clock>>

\* the signature on the wire: the sender's, or any other string
VerifyReceived ==
    \E payload \in Texts, secret \in Texts :
        \/ VerifySignature(payload, returned[1].signature, secret)
        \/ \E t \in Texts : VerifySignature(payload, Text(t), secret)

NextSign ==
    \/ \E payload \in Texts, secret \in Texts :
            GenerateSignature(payload, secret)
    \/ VerifyReceived

SpecSign == InitAggregate /\ [][NextSign]_vars

(***************************************************************************)
(* Claims about the event processor (Spec).                                *)
(***************************************************************************)
Status(e) == events[e].is_processed

\* C1: no execution of process_event moves an event out of processed or out
\* of failed; in particular a retry never takes a failed event back to
\* processing.
C1_StatusTerminal ==
    [][\A e \in EventIds :
         (events[e].exists /\ Status(e) \in {"processed", "failed"})
            => events'[e].is_processed = Status(e)]_vars

\* C2: an event's processed_at is non-null if and only if its status is
\* processed.
C2_ProcessedAtIffProcessed ==
    \A e \in EventIds :
        events[e].exists =>
            (events[e].processed_at # NoTime <=> Status(e) = "processed")

\* the event processor has nothing left to run: only deliveries are queued
Quiescent ==
    /\ \A m \in Messages : m.task = "send_single_webhook"
    /\ \A k \in Workers : worker[k] = Idle

\* C5: over a run with retries (and no duplicate delivery by the broker),
\* exactly one send_single_webhook task is submitted for each active
\* subscription of the event's owner whose filter matches: never more than
\* one, and one once the event is processed and the pipeline has run out.
C5_ExactlyOneDelivery ==
    redeliveries = MaxRedeliver =>
        \A w \in WebhookIds, e \in EventIds :
            /\ enqueued[<<w, e>>] <= 1
            /\ (Quiescent /\ events[e].exists /\ Status(e) = "processed"
                    /\ w \in Targets(e))
                  => enqueued[<<w, e>>] = 1

\* C7: trigger_webhooks never submits a delivery for a subscription that is
\* inactive or whose filter holds neither '*' nor the event's type.
C7_NoDeliveryUnlessMatching ==
    [][\A w \in WebhookIds, e \in EventIds :
         enqueued'[<<w, e>>] > enqueued[<<w, e>>] =>
            /\ webhooks[w].is_active
            /\ "*" \in webhooks[w].events
                  \/ events[e].event_type \in webhooks[w].events]_vars

\* C7 witness: a delivery was submitted for one subscription while another
\* of the same owner, inactive or not matching, got none.
C7_Witness ==
    \E w \in WebhookIds, v \in WebhookIds, e \in EventIds :
        /\ enqueued[<<w, e>>] > 0
        /\ enqueued[<<v, e>>] = 0
        /\ webhooks[v].user_id = events[e].user_id
        /\ ~webhooks[v].is_active \/ webhooks[v].events \in {{}, {"page_view"}}
        /\ Status(e) = "processed"
        /\ Quiescent

\* C11: process_event for an id whose Event row it cannot see (none
\* committed) returns without scheduling a retry, without submitting
\* trigger_webhooks and without writing anything to the store.
C11_NotFoundIsTerminal ==
    [][\A k \in Workers, m \in Messages :
         (ProcessEventStart(k, m)
            /\ ~(events[m.event].exists /\ events[m.event].committed))
            => /\ events' = events
               /\ queue' = queue (-) SetToBag({m})
               /\ worker' = worker
               /\ enqueued' = enqueued]_vars

\* C11 witness: the submitted process_event ran before the request
\* committed the row, and is gone: nothing queued, the row untouched
C11_Witness ==
    /\ events["e1"].exists
    /\ ~events["e1"].committed
    /\ Status("e1") = "pending"
    /\ queue = EmptyBag
    /\ faults = MaxFaults
    /\ redeliveries = MaxRedeliver

\* C12: when the submit of trigger_webhooks fails inside process_event (no
\* trigger_webhooks message is added), the same execution still marks the
\* event processed and stamps processed_at, and no retry is scheduled.
C12_EnqueueFailureIgnored ==
    [][\A k \in Workers :
         LET m == worker[k].msg
             e == m.event
             trigger == Msg("trigger_webhooks", e, "-", 0)
             again == Retried(m)
         IN  (ProcessEventFinish(k) /\ events[e].exists
                /\ CopiesIn(trigger, queue') = CopiesIn(trigger, queue))
                => /\ events'[e].is_processed = "processed"
                   /\ events'[e].processed_at = Stamp(m)
                   /\ CopiesIn(again, queue') = CopiesIn(again, queue)]_vars

\* C14: a successful process_event leaves every key of the property map
\* with its value and adds _processed_at and _version, for every initial
\* map, the empty one included.
C14_EnrichmentKeepsKeys ==
    [][\A k \in Workers :
         LET e == worker[k].msg.event
             old == events[e].properties
             new == events'[e].properties
         IN  (ProcessEventFinish(k) /\ events'[e].exists
                /\ events'[e].is_processed = "processed")
                => /\ {"_processed_at", "_version"} \subseteq DOMAIN new
                   /\ \A x \in DOMAIN old :
                         x \in DOMAIN new /\ new[x] = old[x]]_vars

\* C30: re-running process_event on an event whose properties already
\* carry the enrichment keys makes the property map grow: the key set
\* after the run is larger than before.
C30_EnrichmentAccumulates ==
    [][\A k \in Workers :
         LET e == worker[k].msg.event
             old == events[e].properties
             new == events'[e].properties
         IN  (ProcessEventFinish(k) /\ events'[e].exists
                /\ events'[e].is_processed = "processed"
                /\ {"_processed_at", "_version"} \subseteq DOMAIN old)
                => Cardinality(DOMAIN new) > Cardinality(DOMAIN old)]_vars

(***************************************************************************)
(* Claims about the event processor over a long run (SpecRetry).           *)
(***************************************************************************)
\* C13: process_event for an event whose every execution fails is executed
\* at most 3 times in total: no 4th execution is ever scheduled.
C13_AtMostThreeExecutions ==
    \A m \in Messages : m.task = "process_event" => m.retries + 1 <= 3

\* C15: a trigger_webhooks that cannot load the event fails transiently:
\* while it has retries left, the queue gets its retry.
C15_MissingEventRetried ==
    [][\A m \in Messages :
         (TriggerWebhooks(m) /\ m.retries < TriggerWebhooksMaxRetries
            /\ ~(events[m.event].exists /\ events[m.event].committed))
            => \E x \in DOMAIN queue' :
                  /\ x.task = "trigger_webhooks"
                  /\ x.event = m.event
                  /\ x.retries = m.retries + 1]_vars

(***************************************************************************)
(* Claims about the webhook dispatcher (SpecDelivery).                     *)
(***************************************************************************)
\* C3: after N delivery attempts that did the POST and committed,
\* success_count + failure_count has grown by exactly N, also when
\* deliveries for the same subscription run concurrently.
C3_EveryAttemptCounted ==
    \A w \in WebhookIds :
        webhooks[w].success_count + webhooks[w].failure_count = attempts[w]

\* C4: the stored success_count and failure_count never decrease.
C4_CountersMonotone ==
    [][\A w \in WebhookIds :
         /\ webhooks'[w].success_count >= webhooks[w].success_count
         /\ webhooks'[w].failure_count >= webhooks[w].failure_count]_vars

\* C6: a delivery that ran with no other delivery for the same subscription
\* in flight, and committed: a response with status < 400 adds exactly 1 to
\* success_count and leaves failure_count; status >= 400, a timeout or a
\* network error adds exactly 1 to failure_count and leaves success_count;
\* either way last_triggered_at is written by the same commit.
C6_OutcomeCounted ==
    [][\A k \in Workers, r \in HttpResponses :
         (SendSingleWebhookFinish(k, r) /\ worker[k].alone /\ faults' = faults)
            => LET w == worker[k].msg.webhook
                   ok == r.kind = "response" /\ r.status_code < 400
               IN  /\ webhooks'[w].success_count
                        = webhooks[w].success_count + (IF ok THEN 1 ELSE 0)
                   /\ webhooks'[w].failure_count
                        = webhooks[w].failure_count + (IF ok THEN 0 ELSE 1)
                   /\ webhooks'[w].last_triggered_at = Stamp(worker[k].msg)]_vars

\* C6 witness: a failed delivery and then the successful retry, each alone,
\* are both on the counters.
C6_Witness ==
    /\ webhooks["w1"].success_count = 1
    /\ webhooks["w1"].failure_count = 1
    /\ attempts["w1"] = 2
    /\ redeliveries = MaxRedeliver
    /\ webhooks["w1"].last_triggered_at = Stamp(Msg("send_single_webhook", "e1", "w1", 1))

(***************************************************************************)
(* Claims about one delivery task over a long run (SpecPost).              *)
(***************************************************************************)
\* C16: one submitted delivery task whose endpoint fails on every attempt
\* does at most 5 POSTs in total, so failure_count grows by at most 5.
C16_AtMostFivePosts ==
    \A w \in WebhookIds :
        /\ attempts[w] <= 5
        /\ webhooks[w].failure_count <= 5

FiveFailures == <<FALSE, FALSE, FALSE, FALSE, FALSE>>

\* C8: once send_webhook_notification has failed on 5 consecutive
\* executions for a notification, its status is failed, its retry_count is
\* 5 and its error_message is non-null, also when the failures are HTTP
\* error responses, which carry no error text.
C8_FailedAfterFiveFailures ==
    \A n \in NotificationIds :
        (executions[n] = FiveFailures
            /\ notifications[n].notification_type = "webhook") =>
            /\ notifications[n].status = "failed"
            /\ notifications[n].retry_count = 5
            /\ notifications[n].error_message # NULL

\* C8 witness: five failures, the last an HTTP error response
C8_Witness ==
    \E n \in NotificationIds :
        /\ executions[n] = FiveFailures
        /\ notifications[n].error_message = "Max retries exceeded"

\* C9: a failed execution of send_webhook_notification adds exactly 1 to
\* retry_count, leaves a pending notification pending while retry_count < 5
\* and makes it failed as soon as retry_count >= 5; a successful execution
\* sets status sent and sent_at and leaves retry_count.
C9_RetryCountStep ==
    [][\A m \in Messages, r \in HttpResponses :
         (SendWebhookNotification(m, r) /\ notifications[m.notification].exists)
            => LET old == notifications[m.notification]
                   new == notifications'[m.notification]
               IN  IF r.kind = "response" /\ r.status_code < 400
                   THEN /\ new.status = "sent"
                        /\ new.sent_at = NStamp(m)
                        /\ new.retry_count = old.retry_count
                   ELSE /\ new.retry_count = old.retry_count + 1
                        /\ new.retry_count >= 5 => new.status = "failed"
                        /\ (new.retry_count < 5 /\ old.status = "pending")
                              => new.status = "pending"]_vars

\* C9 witness: four failures left the notification pending, then a
\* successful execution sent it and left retry_count at 4
C9_Witness ==
    \E n \in NotificationIds :
        /\ executions[n] = <<FALSE, FALSE, FALSE, FALSE, TRUE>>
        /\ notifications[n].status = "sent"
        /\ notifications[n].retry_count = 4

\* C10: sent and failed are terminal: no dispatcher execution moves a
\* notification from failed to sent or from sent to failed.
C10_StatusTerminal ==
    [][\A n \in NotificationIds :
         (notifications[n].exists /\ notifications[n].status \in {"sent", "failed"})
            => notifications'[n].status = notifications[n].status]_vars

\* C17: send_email_notification for a notification that does not exist,
\* is not of the email channel or whose user does not exist returns at
\* once: the mail client is not invoked, no retry is scheduled, and the
\* notification's status, error_message and retry_count stay as they were.
C17_PermanentErrorsLeaveRow ==
    [][\A m \in Messages, ok \in BOOLEAN :
         LET row == notifications[m.notification]
         IN  (SendEmailNotification(m, ok)
                /\ (~row.exists \/ row.notification_type # "email"
                        \/ row.user_id \notin Users))
                => /\ notifications' = notifications
                   /\ executions' = executions
                   /\ queue' = queue (-) SetToBag({m})]_vars

\* C17 witness: of the two copies of a send_email_notification message for
\* a pending notification of the webhook channel, one has run and is gone;
\* the notification is untouched and no mail was sent
C17_Witness ==
    \E n \in NotificationIds :
        /\ notifications[n].exists
        /\ notifications[n].notification_type = "webhook"
        /\ notifications[n].status = "pending"
        /\ notifications[n].retry_count = 0
        /\ executions[n] = <<>>
        /\ queue = SetToBag({NMsg("send_email_notification", n, 0)})
        /\ redeliveries = MaxRedeliver - 1

\* C18: send_email_notification is executed at most 3 times in total for
\* one submitted task: no 4th execution is ever scheduled.
C18_AtMostThreeExecutions ==
    \A m \in Messages :
        m.task = "send_email_notification" => m.retries + 1 <= 3

\* C19: create_and_send_notification (no submit or commit raising) stores
\* exactly one notification and then: email - the row stays pending and
\* exactly one send_email_notification task is submitted; in_app - status
\* sent and sent_at set, nothing submitted, no mail or HTTP call; webhook -
\* the row stays pending and nothing is submitted.
C19_CreateDispatchesByChannel ==
    [][\A n \in NotificationIds, u \in Clients, type \in Channels :
         (CreateAndSendNotification(n, u, type) /\ faults' = faults)
            => /\ notifications'[n].exists
               /\ notifications'[n].notification_type = type
               /\ \A o \in NotificationIds \ {n} :
                     notifications'[o] = notifications[o]
               /\ executions' = executions
               /\ type = "email" =>
                     /\ notifications'[n].status = "pending"
                     /\ queue' = queue (+)
                           SetToBag({NMsg("send_email_notification", n, 0)})
               /\ type = "in_app" =>
                     /\ notifications'[n].status = "sent"
                     /\ notifications'[n].sent_at # NoTime
                     /\ queue' = queue
               /\ type = "webhook" =>
                     /\ notifications'[n].status = "pending"
                     /\ queue' = queue]_vars

\* C19 witness: an email notification, pending, with its one task queued
C19_Witness ==
    \E n \in NotificationIds :
        /\ notifications[n].exists
        /\ notifications[n].notification_type = "email"
        /\ notifications[n].status = "pending"
        /\ queue = SetToBag({NMsg("send_email_notification", n, 0)})
        /\ faults = MaxCommitFaults
        /\ redeliveries = MaxRedeliver

\* C23: a send_email_notification delivered again for a notification whose
\* status is already sent does not invoke the mail client and changes no
\* stored field of the notification.
C23_DuplicateEmailSafe ==
    [][\A m \in Messages, ok \in BOOLEAN :
         LET row == notifications[m.notification]
         IN  (SendEmailNotification(m, ok) /\ row.exists
                /\ row.status = "sent")
                => /\ executions' = executions
                   /\ notifications' = notifications]_vars

(***************************************************************************)
(* Claims about send_bulk_notifications (SpecBulk).                        *)
(***************************************************************************)
\* C20: send_bulk_notifications returns one handle per entry of user_ids,
\* in order, and a task is submitted for every entry, also when the submit
\* for one entry fails.
C20_BulkSubmitsAll ==
    bulk.called =>
        /\ bulk.submitted = Len(bulk.user_ids)
        /\ Len(bulk.results) = Len(bulk.user_ids)
        /\ \A i \in 1..Len(bulk.results) :
              bulk.results[i].user_id = bulk.user_ids[i]

(***************************************************************************)
(* Claims about the scheduled maintenance (SpecMaint).                     *)
(***************************************************************************)
\* the notifications stored for user u
NotificationsOf(nt, u) ==
    { n \in DOMAIN nt : nt[n].exists /\ nt[n].user_id = u }

\* C24: one run of generate_daily_report creates, for each active user
\* with at least one event stamped on the previous day, exactly one in_app
\* notification with status sent and sent_at set, and none for a user
\* without such an event (events of today or of earlier days do not count)
\* or an inactive user; reports_generated is the number created.
C24_OneReportPerActiveUser ==
    [][GenerateDailyReport =>
         /\ \A u \in Users :
              LET mine == NotificationsOf(notifications', u)
                            \ NotificationsOf(notifications, u)
                  due == /\ users[u].is_active
                         /\ \E e \in DOMAIN events :
                               /\ events[e].exists
                               /\ events[e].user_id = u
                               /\ events[e].timestamp = clock - 1
              IN  /\ due => /\ Cardinality(mine) = 1
                            /\ \A n \in mine :
                                  /\ notifications'[n].notification_type = "in_app"
                                  /\ notifications'[n].status = "sent"
                                  /\ notifications'[n].sent_at # NoTime
                  /\ ~due => mine = {}
         /\ returned'[Len(returned')].reports_generated
              = Cardinality({ n \in DOMAIN notifications' :
                                /\ notifications'[n].exists
                                /\ ~notifications[n].exists })]_vars

\* C24 witness: a run reported to active u1, who has an event of yesterday
\* and one of today, and not to inactive u2, who has one of yesterday
C24_Witness ==
    /\ Len(returned) = 1
    /\ returned[1].task = "generate_daily_report"
    /\ returned[1].reports_generated = 1
    /\ notifications["n1"].exists
    /\ ~notifications["n2"].exists
    /\ ~users["u2"].is_active
    /\ events["e1"].exists /\ events["e1"].timestamp = clock - 1
    /\ events["e2"].exists /\ events["e2"].timestamp = clock
    /\ events["e3"].exists /\ events["e3"].timestamp = clock - 1

C26_CleanupDeletesExactlyOld ==
    [][\A d \in RetentionDays :
         CleanupOldEvents(d) =>
            LET gone == { e \in DOMAIN events :
                            events[e].exists /\ ~events'[e].exists }
            IN  /\ \A e \in DOMAIN events :
                      events[e].exists =>
                         /\ events[e].timestamp < clock - d => e \in gone
                         /\ events[e].timestamp >= clock - d
                               => events'[e] = events[e]
                /\ returned'[Len(returned')].deleted_count
                      = Cardinality(gone)]_vars

\* C26 witness: one run removed the three events of the store, of
\* different statuses, which takes more than one batch
C26_Witness ==
    /\ Len(returned) = 1
    /\ returned[1].task = "cleanup_old_events"
    /\ returned[1].deleted_count = 3
    /\ \A e \in DOMAIN events : ~events[e].exists

(***************************************************************************)
(* Claims about the inbox (SpecInbox).                                     *)
(***************************************************************************)
\* C21: read_at is written at most once: marking a notification that is
\* already read as read again leaves its read_at unchanged.
C21_ReadAtWrittenOnce ==
    [][\A n \in DOMAIN notifications :
         (notifications[n].exists /\ notifications[n].is_read)
            => notifications'[n].read_at = notifications[n].read_at]_vars

\* C22: a notification whose is_read is true has status sent.
C22_ReadOnlyWhenSent ==
    \A n \in DOMAIN notifications :
        (notifications[n].exists /\ notifications[n].is_read)
            => notifications[n].status = "sent"

(***************************************************************************)
(* Claims about the retry schedule (SpecBackoff).                          *)
(***************************************************************************)
\* C28: the delay before retry number k of a task (k = 0 for the first)
\* is base * 2^k seconds, with base 1 for process_event and
\* trigger_webhooks, 5 for send_single_webhook, 60 for
\* send_email_notification and 30 for send_webhook_notification, so the
\* successive delays of one task double.
C28_BackoffDoubles ==
    /\ [](\A m \in Messages :
            m.retries > 0 =>
               LET base == IF m.task \in {"process_event", "trigger_webhooks"}
                           THEN 1
                           ELSE IF m.task = "send_single_webhook" THEN 5
                           ELSE IF m.task = "send_email_notification" THEN 60
                           ELSE 30
               IN  m.countdown = base * 2^(m.retries - 1))
    /\ [][\A m \in Messages :
             (TaskFails(m) /\ m.retries > 0)
                => \A x \in DOMAIN queue' :
                      (x.task = m.task /\ x.retries = m.retries + 1)
                         => x.countdown = 2 * m.countdown]_vars

\* C28 witness: send_single_webhook waiting for its fifth retry (k = 4),
\* 80 seconds, next to send_webhook_notification waiting for its second
C28_Witness ==
    \E a \in Messages, b \in Messages :
        /\ a.task = "send_single_webhook" /\ a.retries = 5 /\ a.countdown = 80
        /\ b.task = "send_webhook_notification" /\ b.retries = 2
        /\ b.countdown = 60

(***************************************************************************)
(* Claims about generate_event_aggregations (SpecAggregate).               *)
(***************************************************************************)
\* C29: generate_event_aggregations returns a success result for every
\* time_range, and a string with a recognised suffix but a missing or
\* non-numeric count, such as 'd' or 'xw', gets the default 7-day window.
C29_UnparsableRangeDefaults ==
    \A i \in 1..Len(returned) :
        returned[i].task = "generate_event_aggregations" =>
            LET t == returned[i].time_range
                count == SubSeq(t, 1, Len(t) - 1)
                numeric == count # <<>>
                             /\ \A j \in 1..Len(count) : count[j] \in {"1", "2"}
            IN  /\ returned[i].success
                /\ ~numeric => returned[i].days = 7

(***************************************************************************)
(* Further claims about the webhook dispatcher (SpecDelivery).             *)
(***************************************************************************)
\* C33: a send_single_webhook execution that loads a subscription which is
\* inactive at that moment (deactivated after the delivery was queued, or
\* between two retries) stops there: it does not go on to the POST and the
\* subscription's counters are not touched by it.
C33_InactiveNotPosted ==
    [][\A k \in Workers, m \in Messages :
         (SendSingleWebhookLoad(k, m) /\ ~webhooks[m.webhook].is_active)
            => worker'[k] = Idle]_vars

(***************************************************************************)
(* Claims about the pipeline from ingestion to the POST (SpecPipeline).    *)
(***************************************************************************)
\* C34: whenever send_single_webhook loads an event to build the payload it
\* POSTs, the stored status of the event is processed and its non-empty
\* properties carry the enrichment of process_event; in particular no
\* delivery is made for an event whose processing failed.
C34_DeliveredEventIsProcessed ==
    [][\A k \in Workers, m \in Messages :
         (SendSingleWebhookLoad(k, m) /\ Visible(m.event))
            => /\ Status(m.event) = "processed"
               /\ DOMAIN events[m.event].properties # {}
                    => /\ "_processed_at" \in DOMAIN events[m.event].properties
                       /\ events[m.event].properties["_version"] = "1.0"]_vars

\* C35: every send_single_webhook task in the queue or on a worker pairs an
\* event with a subscription of the event's owner, so an event of one user
\* is never POSTed to a subscription of another user.
C35_DeliveriesStayWithOwner ==
    /\ \A m \in Messages :
          m.task = "send_single_webhook"
            => webhooks[m.webhook].user_id = events[m.event].user_id
    /\ \A k \in Workers :
          worker[k].task = "send_single_webhook"
            => webhooks[worker[k].msg.webhook].user_id
                  = events[worker[k].msg.event].user_id
    /\ \A w \in WebhookIds, e \in EventIds :
          enqueued[<<w, e>>] > 0 => webhooks[w].user_id = events[e].user_id

\* C35 witness: the event of u1 was POSTed to u1's subscription w1, while the
\* active wildcard subscription w2 of u2 got nothing
C35_Witness ==
    /\ events["e1"].exists /\ events["e1"].user_id = "u1"
    /\ webhooks["w2"].user_id = "u2" /\ webhooks["w2"].is_active
    /\ "*" \in webhooks["w2"].events
    /\ attempts["w1"] = 1
    /\ attempts["w2"] = 0
    /\ queue = EmptyBag
    /\ \A k \in Workers : worker[k] = Idle

(***************************************************************************)
(* Further claims about the notification dispatcher (SpecNotif).           *)
(***************************************************************************)
\* C36: once send_webhook_notification has set a notification to failed
\* with retry_count 5, no later execution of that task (by its own retries,
\* without any duplicate delivery by the broker) changes the notification:
\* retry_count stays 5 and the status does not become sent.
C36_FailedWebhookNotificationFrozen ==
    [][\A m \in Messages, r \in HttpResponses :
         (/\ SendWebhookNotification(m, r)
          /\ redeliveries = MaxRedeliver
          /\ notifications[m.notification].exists
          /\ notifications[m.notification].status = "failed"
          /\ notifications[m.notification].retry_count = 5)
            => notifications' = notifications]_vars

(***************************************************************************)
(* Claims about repeated runs of the daily report (SpecReport).            *)
(***************************************************************************)
\* the date a report notification is about: the day before it was written
ReportDate(row) == row.sent_at[3] - 1

\* C37: however often generate_daily_report runs for one calendar day, each
\* user has at most one report notification for that date.
C37_OneReportPerUserAndDate ==
    \A u \in Users :
        \A n1 \in NotificationsOf(notifications, u),
           n2 \in NotificationsOf(notifications, u) :
            ReportDate(notifications[n1]) = ReportDate(notifications[n2])
                => n1 = n2

(***************************************************************************)
(* Claims about cleanup_old_events next to ingestion (SpecCleanup).        *)
(***************************************************************************)
RECURSIVE SumTo(_, _)
SumTo(batches, i) == IF i = 0 THEN 0 ELSE batches[i] + SumTo(batches, i - 1)

\* C38: cleanup_old_events always terminates; no transaction of it deletes
\* more than batch_size rows; and the loop goes on exactly while the running
\* total is below the count taken at the start and no batch was empty.
C38_CleanupTerminatesInBatches ==
    /\ [](\A k \in Workers :
            worker[k].task = "cleanup_old_events" =>
                /\ worker[k].deleted < worker[k].count
                /\ \A i \in 1..Len(worker[k].batches) :
                      /\ worker[k].batches[i] <= batch_size
                      /\ worker[k].batches[i] > 0)
    /\ [](\A j \in 1..Len(returned) :
            LET b == returned[j].batches
            IN  /\ \A i \in 1..Len(b) : b[i] <= batch_size
                /\ \A i \in 1..(Len(b) - 1) :
                      b[i] > 0 /\ SumTo(b, i) < returned[j].count
                /\ Len(b) > 0 =>
                      \/ b[Len(b)] = 0
                      \/ SumTo(b, Len(b)) >= returned[j].count
                /\ returned[j].deleted_count = SumTo(b, Len(b)))
    /\ \A k \in Workers :
          (worker[k].task = "cleanup_old_events") ~> (worker[k] = Idle)

\* C38 witness: a run that needed two transactions, a full batch and the
\* rest
C38_Witness ==
    \E j \in 1..Len(returned) :
        /\ returned[j].batches = <<batch_size, 1>>
        /\ returned[j].count = batch_size + 1

\* C39: when a run of cleanup_old_events has returned success, none of the
\* events that were older than the cutoff when the run started is still in
\* the store, also when old events were ingested while the batches ran.
C39_CountedEventsAreGone ==
    [][\A k \in Workers :
         CleanupBatch(k) /\ worker'[k] = Idle
            => \A e \in worker[k].counted : ~events'[e].exists]_vars

(***************************************************************************)
(* Claims about every writer of the status sent (SpecSent).                *)
(***************************************************************************)
\* C40: in every reachable state a notification whose status is sent has a
\* sent_at, whichever operation made it sent.
C40_SentHasSentAt ==
    \A n \in DOMAIN notifications :
        (notifications[n].exists /\ notifications[n].status = "sent")
            => notifications[n].sent_at # NoTime

\* C40 witness: one notification sent by send_webhook_notification after a
\* failed attempt, the other created as sent by CreateInAppNotification
C40_Witness ==
    /\ notifications["n1"].exists /\ notifications["n1"].status = "sent"
    /\ notifications["n1"].sent_at = <<"send_webhook_notification", "n1", 1>>
    /\ notifications["n2"].exists /\ notifications["n2"].status = "sent"
    /\ notifications["n2"].sent_at = <<"CreateInAppNotification", "n2", clock>>

(***************************************************************************)
(* Claims about the event processor under fair scheduling (SpecFair).      *)
(***************************************************************************)
\* C32: an event whose process_event task the broker accepted eventually
\* leaves pending (its status becomes processed or failed), under fair
\* scheduling of the request's commit and of the workers.
C32_AcceptedEventLeavesPending ==
    \A e \in EventIds :
        BagIn(Msg("process_event", e, "-", 0), queue)
            ~> (events[e].exists /\ Status(e) \in {"processed", "failed"})

(***************************************************************************)
(* Claims about the signer (SpecSign).                                     *)
(***************************************************************************)
\* C31: verifying the signature of a payload under the secret it was signed
\* with gives true, and verify_signature gives false as soon as the payload,
\* the signature or the secret is not the one used to sign.
C31_SignatureRoundTrip ==
    Len(returned) = 2 /\ returned[2].task = "verify_signature" =>
        LET signed == returned[1]
            checked == returned[2]
            same == /\ checked.payload = signed.payload
                    /\ checked.secret = signed.secret
                    /\ checked.signature.kind = "hexdigest"
        IN  checked.result = IF same THEN "True" ELSE "False"

====
